---- MODULE Spec2Model ----
(***************************************************************************)
(* A model of deeppavlov/models/preprocessors/odqa_preprocessors.py:       *)
(* DocumentChunker.__call__ and StringMultiplier.__call__.                 *)
(*                                                                         *)
(* A Python str is a sequence of one-character strings, so that split,     *)
(* strip, join and len are computed character by character.  A list is a   *)
(* sequence.  A batch element is a record [isstr, val]: val is a document  *)
(* when isstr (isinstance(docs, str)), and a list of documents otherwise.  *)
(***************************************************************************)
EXTENDS Integers, Sequences, FiniteSets, TLC

(* ------------------------------ bounds -------------------------------- *)

\* Text documents are concatenations of at most MaxItems items of TextItems.
MaxItems == 4
\* Paragraph documents are concatenations of at most MaxPieces of ParagraphPieces.
MaxPieces == 3
\* A batch has at most MaxBatch elements (also batch_s and ref).
MaxBatch == 2
\* A batch element that is a list holds at most MaxDocs documents.
MaxDocs == 2
\* tokens_limit ranges over -1 .. MaxTokensLimit.
MaxTokensLimit == 2
\* An element of ref has at most MaxRefLen items.
MaxRefLen == 2

(* ------------------------- program constants -------------------------- *)

\* filter(lambda x: len(x) > 40, split_doc)
ParagraphMinLen == 40

(* --------------------------- str operations --------------------------- *)

\* The characters str.split() and str.strip() treat as whitespace.
Whitespace == {" ", "\n"}

IsSpace(c) == c \in Whitespace

RECURSIVE Concat(_)
\* The concatenation of a sequence of sequences, in order.
Concat(ss) == IF ss = <<>> THEN <<>> ELSE Head(ss) \o Concat(Tail(ss))

\* The least and the greatest number of a non-empty set of numbers.
Least(S) == CHOOSE p \in S : \A q \in S : p <= q
Greatest(S) == CHOOSE p \in S : \A q \in S : q <= p

\* str.lstrip()
LStrip(s) ==
    LET black == {p \in 1 .. Len(s) : ~IsSpace(s[p])}
    IN  IF black = {} THEN <<>> ELSE SubSeq(s, Least(black), Len(s))

\* str.strip()
Strip(s) ==
    LET black == {p \in 1 .. Len(s) : ~IsSpace(s[p])}
    IN  IF black = {} THEN <<>> ELSE SubSeq(s, Least(black), Greatest(black))

RECURSIVE SplitNN(_)
\* str.split('\n\n'): the separator is matched leftmost first, and an empty
\* piece is kept.
SplitNN(s) ==
    LET seps == {p \in 1 .. Len(s) : p < Len(s) /\ s[p] = "\n" /\ s[p + 1] = "\n"}
    IN  IF seps = {} THEN <<s>>
        ELSE <<SubSeq(s, 1, Least(seps) - 1)>>
                 \o SplitNN(SubSeq(s, Least(seps) + 2, Len(s)))

RECURSIVE Tokens(_)
\* str.split(): runs of whitespace separate the tokens and no empty token
\* is produced.
Tokens(s) ==
    LET t      == LStrip(s)
        spaces == {p \in 1 .. Len(t) : IsSpace(t[p])}
    IN  IF t = <<>> THEN <<>>
        ELSE IF spaces = {} THEN <<t>>
        ELSE <<SubSeq(t, 1, Least(spaces) - 1)>>
                 \o Tokens(SubSeq(t, Least(spaces), Len(t)))

RECURSIVE Join(_)
\* ' '.join(keep)
Join(keep) ==
    IF keep = <<>> THEN <<>>
    ELSE IF Len(keep) = 1 THEN keep[1]
    ELSE keep[1] \o <<" ">> \o Join(Tail(keep))

RECURSIVE SentSplit(_)
\* The sentences of a stripped text: a sentence ends at a "." that
\* whitespace follows, and the whitespace between two sentences belongs to
\* neither.
SentSplit(s) ==
    LET ends == {p \in 1 .. Len(s) : p < Len(s) /\ s[p] = "." /\ IsSpace(s[p + 1])}
    IN  IF s = <<>> THEN <<>>
        ELSE IF ends = {} THEN <<s>>
        ELSE <<SubSeq(s, 1, Least(ends))>>
                 \o SentSplit(LStrip(SubSeq(s, Least(ends) + 1, Len(s))))

\* nltk's sent_tokenize, the module-level import: text -> list of sentences.
sent_tokenize(doc) == SentSplit(Strip(doc))

\* A sentencize_fn a caller may pass instead: the whole text as one sentence.
whole_text(doc) == <<doc>>

SentencizeFns == {"sent_tokenize", "whole_text"}

\* Calling the function value fn on doc.
ApplyFn(fn, doc) == IF fn = "sent_tokenize" THEN sent_tokenize(doc) ELSE whole_text(doc)

(* ----------------------- DocumentChunker.__call__ --------------------- *)

\* A variant of ParagraphChunks that also keeps a piece of exactly
\* ParagraphMinLen characters (len(x) >= 40).
ParagraphChunksAtLeast(doc) ==
    LET split_doc == SplitNN(doc)
        stripped  == [p \in 1 .. Len(split_doc) |-> Strip(split_doc[p])]
    IN  SelectSeq(stripped, LAMBDA x : Len(x) >= ParagraphMinLen)

\* Lines 72-74: split on the blank line, strip every piece, keep the pieces
\* longer than ParagraphMinLen.
ParagraphChunks(doc) ==
    LET split_doc == SplitNN(doc)
        stripped  == [p \in 1 .. Len(split_doc) |-> Strip(split_doc[p])]
    IN  SelectSeq(stripped, LAMBDA x : Len(x) > ParagraphMinLen)

\* A variant of CountTokens that assigns instead of accumulating
\* (n_tokens = len(s.split())).
CountTokensOfSentence(n, s) == Len(Tokens(s))

\* Line 83: n_tokens += len(s.split())
CountTokens(n, s) == n + Len(Tokens(s))

\* Lines 84-85: the group is flushed before s is appended.
FlushNeeded(n, limit, group) == n > limit /\ group # <<>>

\* A variant of FinalChunks without the flush after the loop.
FinalChunksUnflushed(chunks, group) == chunks

\* Lines 90-91: if keep: doc_chunks.append(' '.join(keep))
FinalChunks(chunks, group) ==
    IF group # <<>> THEN Append(chunks, Join(group)) ELSE chunks

\* range(0, n, step) for step # 0, as the sequence of its values.
Range0(n, step) ==
    IF step > 0 THEN [w \in 1 .. ((n + step - 1) \div step) |-> (w - 1) * step]
    ELSE <<>>

\* A variant of Slice that takes the element at b too.
SliceInclusive(s, a, b) == SubSeq(s, a + 1, IF b + 1 < Len(s) THEN b + 1 ELSE Len(s))

\* The slice s[a:b] for 0 <= a <= b.
Slice(s, a, b) == SubSeq(s, a + 1, IF b < Len(s) THEN b ELSE Len(s))

\* Lines 95-96: [split_doc[i:i + tokens_limit] for i in range(0, len(split_doc), tokens_limit)]
Windows(split_doc, limit) ==
    LET starts == Range0(Len(split_doc), limit)
    IN  [w \in 1 .. Len(starts) |-> Slice(split_doc, starts[w], starts[w] + limit)]

\* A variant of Chain that takes the first inner list only.
ChainFirst(lists) == IF lists = <<>> THEN <<>> ELSE lists[1]

\* Line 103: list(chain.from_iterable(result[i]))
Chain(lists) == Concat(lists)

\* Lines 68-69: a bare string is one document.
Normalise(e) == IF e.isstr THEN <<e.val>> ELSE e.val

VARIABLES
    self,          \* the component's attributes, set by __init__
    batch_docs,    \* the argument of DocumentChunker.__call__
    result,        \* line 64
    i,             \* the number of batch elements the loop of line 66 has taken
    docs,          \* the current batch element, normalised
    j,             \* the number of documents the loop of line 70 has taken
    batch_chunks,  \* line 67
    sentences,     \* line 79
    k,             \* the number of sentences the loop of line 82 has taken
    n_tokens,      \* line 80
    keep,          \* line 81
    doc_chunks,    \* line 77
    batch_s,       \* the arguments of StringMultiplier.__call__
    ref,
    res,           \* line 130
    z,             \* the number of pairs the loop of line 131 has taken
    pc             \* the position of the call

chunker_vars == <<self, batch_docs, result, i, docs, j, batch_chunks,
                  sentences, k, n_tokens, keep, doc_chunks>>
multiplier_vars == <<batch_s, ref, res, z>>
vars == <<chunker_vars, multiplier_vars, pc>>

(* ------------------------------- inputs ------------------------------- *)

SeqsUpTo(S, n) == UNION {[1 .. m -> S] : m \in 0 .. n}

Repeat(c, n) == [p \in 1 .. n |-> c]

TextItems == { <<"a", " ">>, <<"a", ".", " ">>, <<"b", ".">>, <<" ">> }

TextDocs == {Concat(q) : q \in SeqsUpTo(TextItems, MaxItems)}

ParagraphPieces ==
    { <<"\n", "\n">>, <<"\n">>, <<" ">>,
      Repeat("x", ParagraphMinLen), Repeat("x", ParagraphMinLen + 1) }

ParagraphDocs == {Concat(q) : q \in SeqsUpTo(ParagraphPieces, MaxPieces)}

SmallDocs == { <<"a", ".", " ", "b", ".">>, Repeat("x", ParagraphMinLen + 1) }

Elements(D) ==
    {[isstr |-> TRUE, val |-> d] : d \in D}
    \cup {[isstr |-> FALSE, val |-> l] : l \in SeqsUpTo(D, MaxDocs)}

TokensLimits == (-1) .. MaxTokensLimit

\* Lines 46-53: __init__ stores its arguments.
Construct(fn, ks, tl, fr, pg) ==
    [_sentencize_fn |-> fn, keep_sentences |-> ks, tokens_limit |-> tl,
     flatten_result |-> fr, paragraphs |-> pg]

\* One text document, every sentence and token-window configuration.
InitText ==
    /\ \E d \in TextDocs : batch_docs = << [isstr |-> TRUE, val |-> d] >>
    /\ \E fn \in SentencizeFns, ks \in BOOLEAN, tl \in TokensLimits, fr \in BOOLEAN :
          self = Construct(fn, ks, tl, fr, FALSE)

\* One document of paragraphs, every configuration with paragraphs set.
InitParagraphs ==
    /\ \E d \in ParagraphDocs : batch_docs = << [isstr |-> TRUE, val |-> d] >>
    /\ \E ks \in BOOLEAN, tl \in TokensLimits, fr \in BOOLEAN :
          self = Construct("sent_tokenize", ks, tl, fr, TRUE)

\* Every shape of batch over two documents, every mode.
InitBatch ==
    /\ batch_docs \in SeqsUpTo(Elements(SmallDocs), MaxBatch)
    /\ \E ks \in BOOLEAN, fr \in BOOLEAN, pg \in BOOLEAN :
          self = Construct("sent_tokenize", ks, 1, fr, pg)

\* Line 64: the call begins with an empty result; the locals of the loops
\* are not bound yet.
Entry ==
    /\ result = <<>>
    /\ i = 0
    /\ docs = <<>>
    /\ j = 0
    /\ batch_chunks = <<>>
    /\ sentences = <<>>
    /\ k = 0
    /\ n_tokens = 0
    /\ keep = <<>>
    /\ doc_chunks = <<>>
    /\ batch_s = <<>>
    /\ ref = <<>>
    /\ res = <<>>
    /\ z = 0
    /\ pc = "for_docs"

\* A call on a batch of one document.
Init == (InitText \/ InitParagraphs) /\ Entry

\* A call on a batch of any shape.
InitOfBatches == InitBatch /\ Entry

(* ------------------------------- actions ------------------------------ *)

\* Lines 66-69: the next batch element; a bare string becomes [docs].
NextElement ==
    /\ pc = "for_docs"
    /\ i < Len(batch_docs)
    /\ i' = i + 1
    /\ docs' = Normalise(batch_docs[i + 1])
    /\ batch_chunks' = <<>>
    /\ j' = 0
    /\ pc' = "for_doc"
    /\ UNCHANGED <<self, batch_docs, result, sentences, k, n_tokens, keep,
                   doc_chunks, multiplier_vars>>

\* Lines 71-75: a document in paragraph mode.
ParagraphDoc ==
    /\ pc = "for_doc"
    /\ j < Len(docs)
    /\ self.paragraphs
    /\ batch_chunks' = Append(batch_chunks, ParagraphChunks(docs[j + 1]))
    /\ j' = j + 1
    /\ UNCHANGED <<self, batch_docs, result, i, docs, sentences, k, n_tokens,
                   keep, doc_chunks, multiplier_vars, pc>>

\* Lines 77-81: a document in sentence-preserving mode is segmented.
StartSentences ==
    /\ pc = "for_doc"
    /\ j < Len(docs)
    /\ ~self.paragraphs
    /\ self.keep_sentences
    /\ doc_chunks' = <<>>
    /\ sentences' = sent_tokenize(docs[j + 1])
    /\ n_tokens' = 0
    /\ keep' = <<>>
    /\ k' = 0
    /\ pc' = "for_s"
    /\ UNCHANGED <<self, batch_docs, result, i, docs, j, batch_chunks,
                   multiplier_vars>>

\* Lines 82-89: one sentence.
SentenceStep ==
    /\ pc = "for_s"
    /\ k < Len(sentences)
    /\ LET s == sentences[k + 1]
           n == CountTokens(n_tokens, s)
       IN  IF FlushNeeded(n, self.tokens_limit, keep)
           THEN /\ doc_chunks' = Append(doc_chunks, Join(keep))
                /\ n_tokens' = 0
                /\ keep' = <<s>>
           ELSE /\ doc_chunks' = doc_chunks
                /\ n_tokens' = n
                /\ keep' = Append(keep, s)
    /\ k' = k + 1
    /\ UNCHANGED <<self, batch_docs, result, i, docs, j, batch_chunks,
                   sentences, multiplier_vars, pc>>

\* Lines 90-92: the last group is flushed and the document's chunks appended.
EndSentences ==
    /\ pc = "for_s"
    /\ k = Len(sentences)
    /\ doc_chunks' = FinalChunks(doc_chunks, keep)
    /\ batch_chunks' = Append(batch_chunks, doc_chunks')
    /\ j' = j + 1
    /\ pc' = "for_doc"
    /\ UNCHANGED <<self, batch_docs, result, i, docs, sentences, k, n_tokens,
                   keep, multiplier_vars>>

\* Lines 93-97: a document in token-window mode; range() raises ValueError
\* for a step of zero.
TokenWindowDoc ==
    /\ pc = "for_doc"
    /\ j < Len(docs)
    /\ ~self.paragraphs
    /\ ~self.keep_sentences
    /\ IF self.tokens_limit = 0
       THEN /\ pc' = "ValueError"
            /\ UNCHANGED <<j, batch_chunks, doc_chunks>>
       ELSE /\ doc_chunks' = Windows(Tokens(docs[j + 1]), self.tokens_limit)
            /\ batch_chunks' = Append(batch_chunks, doc_chunks')
            /\ j' = j + 1
            /\ pc' = pc
    /\ UNCHANGED <<self, batch_docs, result, i, docs, sentences, k, n_tokens,
                   keep, multiplier_vars>>

\* Line 98: result.append(batch_chunks)
AppendBatchChunks ==
    /\ pc = "for_doc"
    /\ j = Len(docs)
    /\ result' = Append(result, batch_chunks)
    /\ pc' = "for_docs"
    /\ UNCHANGED <<self, batch_docs, i, docs, j, batch_chunks, sentences, k,
                   n_tokens, keep, doc_chunks, multiplier_vars>>

\* Line 66, the batch exhausted.
EndBatch ==
    /\ pc = "for_docs"
    /\ i = Len(batch_docs)
    /\ pc' = "flatten"
    /\ UNCHANGED <<chunker_vars, multiplier_vars>>

\* Lines 100-106.  result[0][0] raises IndexError when result or result[0]
\* is empty; otherwise it is a list, as lines 75, 92 and 97 append nothing
\* else, and every result[i] is flattened.
FlattenAndReturn ==
    /\ pc = "flatten"
    /\ IF ~self.flatten_result
       THEN /\ result' = result
            /\ pc' = "done"
       ELSE IF result = <<>> \/ result[1] = <<>>
            THEN /\ result' = result
                 /\ pc' = "IndexError"
            ELSE /\ result' = [e \in 1 .. Len(result) |-> Chain(result[e])]
                 /\ pc' = "done"
    /\ UNCHANGED <<self, batch_docs, i, docs, j, batch_chunks, sentences, k,
                   n_tokens, keep, doc_chunks, multiplier_vars>>

Next ==
    \/ NextElement
    \/ ParagraphDoc
    \/ StartSentences
    \/ SentenceStep
    \/ EndSentences
    \/ TokenWindowDoc
    \/ AppendBatchChunks
    \/ EndBatch
    \/ FlattenAndReturn

Spec == Init /\ [][Next]_vars

SpecBatch == InitOfBatches /\ [][Next]_vars

(* ---------------------- StringMultiplier.__call__ --------------------- *)

\* A variant of ZipLen that leaves the last pair out.
ZipLenButLast(a, b) ==
    LET n == IF Len(a) < Len(b) THEN Len(a) ELSE Len(b)
    IN  IF n > 0 THEN n - 1 ELSE 0

\* Line 131: zip(batch_s, ref) stops with the shorter of the two.
ZipLen(a, b) == IF Len(a) < Len(b) THEN Len(a) ELSE Len(b)

\* A variant of Times with one copy more.
TimesOneMore(s, n) == [p \in 1 .. n + 1 |-> s]

\* Line 132: [s] * len(r)
Times(s, n) == [p \in 1 .. n |-> s]

Strings == {"x", "y"}

\* An element of ref is a sequence; only its length is read.
RefItems == SeqsUpTo({"r"}, MaxRefLen)

InitMultiplier ==
    /\ batch_s \in SeqsUpTo(Strings, MaxBatch)
    /\ ref \in SeqsUpTo(RefItems, MaxBatch)
    /\ res = <<>>
    /\ z = 0
    /\ self = Construct("sent_tokenize", TRUE, 1, FALSE, FALSE)
    /\ batch_docs = <<>>
    /\ result = <<>>
    /\ i = 0
    /\ docs = <<>>
    /\ j = 0
    /\ batch_chunks = <<>>
    /\ sentences = <<>>
    /\ k = 0
    /\ n_tokens = 0
    /\ keep = <<>>
    /\ doc_chunks = <<>>
    /\ pc = "zip"

\* Lines 131-132: one pair of the zip.
Multiply ==
    /\ pc = "zip"
    /\ z < ZipLen(batch_s, ref)
    /\ res' = Append(res, Times(batch_s[z + 1], Len(ref[z + 1])))
    /\ z' = z + 1
    /\ UNCHANGED <<chunker_vars, batch_s, ref, pc>>

\* Line 134: return res, the zip exhausted.
ReturnRes ==
    /\ pc = "zip"
    /\ z = ZipLen(batch_s, ref)
    /\ pc' = "returned"
    /\ UNCHANGED <<chunker_vars, multiplier_vars>>

NextMultiplier ==
    \/ Multiply
    \/ ReturnRes

SpecMultiplier == InitMultiplier /\ [][NextMultiplier]_vars

(* ------------------------ vocabulary of the claims -------------------- *)

SentenceMode == ~self.paragraphs /\ self.keep_sentences
WindowMode == ~self.paragraphs /\ ~self.keep_sentences

\* len(s.split())
Words(s) == Len(Tokens(s))

\* The ways of cutting n sentences into runs of consecutive sentences:
\* c[p] says that sentence p starts a run.
Cuts(n) == {c \in [1 .. n -> BOOLEAN] : n > 0 => c[1]}

RunCount(c) == Cardinality({q \in DOMAIN c : c[q]})

\* The run that sentence p lies in.
RunOf(c, p) == Cardinality({q \in 1 .. p : c[q]})

\* The sentences of run r, in order.
Run(sents, c, r) == SelectSeq([p \in DOMAIN sents |-> <<p, sents[p]>>],
                              LAMBDA x : RunOf(c, x[1]) = r)

RunSentences(sents, c, r) ==
    LET run == Run(sents, c, r) IN [q \in DOMAIN run |-> run[q][2]]

\* The chunks of the cut c: every run joined by single spaces.
ChunksOfCut(sents, c) ==
    [r \in 1 .. RunCount(c) |-> Join(RunSentences(sents, c, r))]

\* chunks is an in-order partition of sents into joined runs.
IsSentencePartition(chunks, sents) ==
    \E c \in Cuts(Len(sents)) : ChunksOfCut(sents, c) = chunks

RECURSIVE SumWords(_)
SumWords(run) == IF run = <<>> THEN 0 ELSE Words(Head(run)) + SumWords(Tail(run))

\* chunks are consecutive windows of toks, all of limit tokens but the last.
IsWindowing(chunks, toks, limit) ==
    /\ Concat(chunks) = toks
    /\ \A w \in 1 .. Len(chunks) - 1 : Len(chunks[w]) = limit
    /\ chunks # <<>> =>
          /\ Len(chunks[Len(chunks)]) >= 1
          /\ Len(chunks[Len(chunks)]) <= limit
    /\ toks = <<>> => chunks = <<>>

\* chunks are the stripped pieces of doc longer than ParagraphMinLen, in order.
IsParagraphFilter(chunks, doc) ==
    LET pieces == SplitNN(doc)
        kept   == {p \in DOMAIN pieces : Len(Strip(pieces[p])) > ParagraphMinLen}
        \* the piece that precedes exactly q - 1 kept pieces
        nth(q) == CHOOSE p \in kept : Cardinality({o \in kept : o < p}) = q - 1
    IN  /\ Len(chunks) = Cardinality(kept)
        /\ \A q \in DOMAIN chunks : chunks[q] = Strip(pieces[nth(q)])

\* flat is the in-order concatenation of the lists of nested.
IsConcatenation(flat, nested) ==
    LET offset(d) == Len(Concat(SubSeq(nested, 1, d - 1)))
    IN  /\ Len(flat) = Len(Concat(nested))
        /\ \A d \in DOMAIN nested : \A q \in DOMAIN nested[d] :
              flat[offset(d) + q] = nested[d][q]

\* chunks is what the configured mode makes of doc.
IsChunkListOf(chunks, doc) ==
    IF self.paragraphs THEN IsParagraphFilter(chunks, doc)
    ELSE IF self.keep_sentences THEN IsSentencePartition(chunks, sent_tokenize(doc))
    ELSE IF self.tokens_limit >= 1 THEN IsWindowing(chunks, Tokens(doc), self.tokens_limit)
    ELSE chunks = <<>>

\* flat is cut into one chunk list per document of ds, in document order:
\* the list of document d is flat[at[d - 1] + 1 .. at[d]].
IsFlattenedOf(flat, ds) ==
    \E at \in [0 .. Len(ds) -> 0 .. Len(flat)] :
        /\ at[0] = 0
        /\ at[Len(ds)] = Len(flat)
        /\ \A d \in DOMAIN ds :
              /\ at[d - 1] <= at[d]
              /\ IsChunkListOf(SubSeq(flat, at[d - 1] + 1, at[d]), ds[d])

(* -------------------------------- claims ------------------------------ *)

\* C1: every call of DocumentChunker returns, and returns a result as long
\* as the batch whose entry e is made of batch element e alone (one chunk
\* list per document of the element, or their concatenation when flattened).
\* tokens_limit = 0, which range() rejects in token-window mode, is left out.
C1_OrderPreservation ==
    self.tokens_limit # 0 =>
        /\ pc \notin {"IndexError", "ValueError"}
        /\ pc = "done" =>
              /\ Len(result) = Len(batch_docs)
              /\ \A e \in DOMAIN result :
                    LET ds == Normalise(batch_docs[e])
                    IN  IF self.flatten_result
                        THEN IsFlattenedOf(result[e], ds)
                        ELSE /\ Len(result[e]) = Len(ds)
                             /\ \A d \in DOMAIN ds : IsChunkListOf(result[e][d], ds[d])

\* C2: in sentence-preserving mode the chunks of every document are an
\* in-order partition of its sentences: each chunk is the single-space join
\* of a non-empty run of consecutive sentences, and the runs in order are
\* the sentence sequence.
C2_SentencePartition ==
    SentenceMode =>
        \A d \in DOMAIN batch_chunks :
            IsSentencePartition(batch_chunks[d], sent_tokenize(docs[d]))

\* C2 witness: three sentences cut into a chunk of two and a chunk of one.
C2_Witness ==
    /\ SentenceMode
    /\ pc = "done"
    /\ Len(batch_chunks) = 1
    /\ Len(sent_tokenize(docs[1])) = 3
    /\ Len(batch_chunks[1]) = 2
    /\ batch_chunks[1][1] = Join(SubSeq(sent_tokenize(docs[1]), 1, 2))

\* C3: in sentence-preserving mode the chunks of every document are built
\* from the sentences that the constructor's sentencize_fn returns for it.
C3_UsesSentencizeFn ==
    SentenceMode =>
        \A d \in DOMAIN batch_chunks :
            IsSentencePartition(batch_chunks[d], ApplyFn(self._sentencize_fn, docs[d]))

\* C4: in token-window mode with tokens_limit >= 1 the chunks of every
\* document are consecutive windows of its tokens: tokens_limit tokens in
\* each but the last, 1 to tokens_limit in the last, the windows in order
\* giving the token sequence, and none for a document without tokens.
C4_TokenWindows ==
    (WindowMode /\ self.tokens_limit >= 1) =>
        \A d \in DOMAIN batch_chunks :
            IsWindowing(batch_chunks[d], Tokens(docs[d]), self.tokens_limit)

\* C4 witness: three tokens under a limit of two give a full and a short window.
C4_Witness ==
    /\ WindowMode
    /\ self.tokens_limit = 2
    /\ pc = "done"
    /\ Len(batch_chunks) = 1
    /\ Len(Tokens(docs[1])) = 3
    /\ Len(batch_chunks[1]) = 2
    /\ Len(batch_chunks[1][2]) = 1

\* C5: in paragraph mode the chunks of every document are its stripped
\* blank-line-delimited pieces longer than 40 characters, in order, whatever
\* tokens_limit and keep_sentences are.
C5_ParagraphFilter ==
    self.paragraphs =>
        \A d \in DOMAIN batch_chunks : IsParagraphFilter(batch_chunks[d], docs[d])

\* C5 witness: with keep_sentences unset and tokens_limit 0, a piece of 41
\* characters is kept and a piece of exactly 40 is dropped.
C5_Witness ==
    /\ self.paragraphs
    /\ ~self.keep_sentences
    /\ self.tokens_limit = 0
    /\ pc = "done"
    /\ Len(batch_chunks) = 1
    /\ Len(batch_chunks[1]) = 1
    /\ \E p \in DOMAIN SplitNN(docs[1]) :
          Len(Strip(SplitNN(docs[1])[p])) = ParagraphMinLen

\* C6: the step of lines 100-106.  With flatten_result set and a first
\* document-level entry present, the call returns, for every batch element,
\* the in-order concatenation of its per-document chunk lists; with
\* flatten_result unset it returns the result as built: one chunk list per
\* document of the element, in document order.
C6_Flatten ==
    [][pc = "flatten" =>
         /\ (self.flatten_result /\ result # <<>> /\ result[1] # <<>>) =>
               /\ pc' = "done"
               /\ Len(result') = Len(result)
               /\ \A e \in DOMAIN result : IsConcatenation(result'[e], result[e])
         /\ ~self.flatten_result =>
               /\ pc' = "done"
               /\ result' = result
               /\ Len(result) = Len(batch_docs)
               /\ \A e \in DOMAIN result :
                     LET ds == Normalise(batch_docs[e])
                     IN  /\ Len(result[e]) = Len(ds)
                         /\ \A d \in DOMAIN ds : IsChunkListOf(result[e][d], ds[d])
      ]_vars

\* C6 witness: a flattened result whose second element had two documents
\* with chunks of their own.
C6_Witness ==
    /\ pc = "done"
    /\ self.flatten_result
    /\ Len(batch_docs) = 2
    /\ Len(batch_chunks) = 2
    /\ batch_chunks[1] # <<>>
    /\ batch_chunks[2] # <<>>
    /\ batch_chunks[1] # batch_chunks[2]
    /\ result[2] = batch_chunks[1] \o batch_chunks[2]

\* C7: for batch_s and ref of equal length the result has that length, and
\* result[p] is len(ref[p]) copies of batch_s[p].
C7_LengthLaw ==
    (pc = "returned" /\ Len(batch_s) = Len(ref)) =>
        /\ Len(res) = Len(ref)
        /\ \A p \in DOMAIN res :
              /\ Len(res[p]) = Len(ref[p])
              /\ \A q \in DOMAIN res[p] : res[p][q] = batch_s[p]

\* C7 witness: an empty and a two-item reference.
C7_Witness ==
    /\ pc = "returned"
    /\ Len(batch_s) = 2
    /\ Len(ref) = 2
    /\ ref[1] = <<>>
    /\ Len(ref[2]) = 2
    /\ res = << <<>>, <<batch_s[2], batch_s[2]>> >>

\* C8 as stated: the call never returns for batch_s and ref of different
\* lengths.
C8_FailsOnMismatch ==
    Len(batch_s) # Len(ref) => pc # "returned"

\* C8 amended: for batch_s and ref of different lengths the call returns a
\* result as long as the shorter, and result[p] is len(ref[p]) copies of
\* batch_s[p].
C8_TruncatesToShorter ==
    (pc = "returned" /\ Len(batch_s) # Len(ref)) =>
        /\ Len(res) <= Len(batch_s)
        /\ Len(res) <= Len(ref)
        /\ Len(res) = Len(batch_s) \/ Len(res) = Len(ref)
        /\ \A p \in DOMAIN res :
              /\ Len(res[p]) = Len(ref[p])
              /\ \A q \in DOMAIN res[p] : res[p][q] = batch_s[p]

\* C8 witness: two strings and one reference give one list.
C8_Witness ==
    /\ pc = "returned"
    /\ Len(batch_s) = 2
    /\ Len(ref) = 1
    /\ Len(ref[1]) = 1
    /\ res = << <<batch_s[1]>> >>

\* Every chunk holds a sentence without which it has at most tokens_limit
\* words.
WithinOneSentence ==
    (SentenceMode /\ self.tokens_limit >= 0) =>
        \A d \in DOMAIN batch_chunks :
            LET sents == sent_tokenize(docs[d])
            IN  \E c \in Cuts(Len(sents)) :
                    /\ ChunksOfCut(sents, c) = batch_chunks[d]
                    /\ \A r \in 1 .. RunCount(c) :
                          LET run == RunSentences(sents, c, r)
                          IN  \E q \in DOMAIN run :
                                 SumWords(run) - Words(run[q]) <= self.tokens_limit

\* A step of the sentence loop flushes the group, without the sentence,
\* exactly when the counter with the sentence's words exceeds tokens_limit
\* and the group is non-empty; the counter is then zero and the sentence
\* starts the next group.
FlushRule ==
    (pc = "for_s" /\ k' = k + 1) =>
        LET s == sentences[k + 1]
            n == n_tokens + Words(s)
        IN  IF n > self.tokens_limit /\ keep # <<>>
            THEN /\ doc_chunks' = Append(doc_chunks, Join(keep))
                 /\ n_tokens' = 0
                 /\ keep' = <<s>>
            ELSE /\ doc_chunks' = doc_chunks
                 /\ n_tokens' = n
                 /\ keep' = Append(keep, s)

\* C9: in sentence-preserving mode with tokens_limit >= 0 every chunk
\* exceeds tokens_limit by at most one sentence's worth (it holds a sentence
\* without which it has at most tokens_limit words), and every sentence is
\* handled by the flush rule.
C9_TokenBudget == []WithinOneSentence /\ [][FlushRule]_vars

\* C9 witness: three sentences of one word under a limit of one give a
\* chunk of one word and a chunk of two.
C9_Witness ==
    /\ SentenceMode
    /\ self.tokens_limit = 1
    /\ pc = "done"
    /\ Len(batch_chunks) = 1
    /\ Len(sent_tokenize(docs[1])) = 3
    /\ \A p \in 1 .. 3 : Words(sent_tokenize(docs[1])[p]) = 1
    /\ Len(batch_chunks[1]) = 2
    /\ Words(batch_chunks[1][1]) = 1
    /\ Words(batch_chunks[1][2]) = 2

\* C10: in sentence-preserving mode a sentence with more than tokens_limit
\* words, wherever it stands in the document, is a chunk of its own.
C10_OversizedAlone ==
    SentenceMode =>
        \A d \in DOMAIN batch_chunks :
            LET sents == sent_tokenize(docs[d])
            IN  \E c \in Cuts(Len(sents)) :
                    /\ ChunksOfCut(sents, c) = batch_chunks[d]
                    /\ \A p \in DOMAIN sents :
                          Words(sents[p]) > self.tokens_limit =>
                              Len(RunSentences(sents, c, RunOf(c, p))) = 1

====
